---- MODULE Spec2Model ----
(***************************************************************************)
(* Model of the live-session audio pipeline of voice-to-tables:            *)
(*   - AudioStreamPlayer (playback queue, drain callback, resampler),      *)
(*   - ChatRepository.startLiveSession / stopLiveSession and the transport *)
(*     callbacks (onopen, onmessage, onclose, onerror),                    *)
(*   - the capture callback installed by setupAudioInput,                  *)
(*   - useChatViewModel.toggleLiveSession, which gates start and stop.     *)
(*                                                                         *)
(* A decoded float sample is represented exactly by its integer numerator  *)
(* over 32768; a sample produced by the interpolating resampler by its     *)
(* numerator over 32768 * targetRate, so interpolation stays in integers.  *)
(***************************************************************************)
EXTENDS Integers, Sequences, FiniteSets, TLC

VARIABLES
    \* ---- useChatViewModel state
    liveState,            \* LiveConnectionState held by the view model
    error,                \* view model error string (abstracted to its kind)
    activeTemplate,       \* id of the template the view model shows
    nChanges,             \* number of changeTemplate calls made (bounded)
    \* ---- AudioStreamPlayer objects, one per start request (object 1 is
    \*      also the player exercised on its own by SpecPlayer)
    players,              \* id -> [audioContext, scriptNode, audioQueue, isPlaying, pc]
    \* ---- observation of the playback pipeline (player 1)
    enqueued,             \* concatenation of all blocks pushed since start()
    emitted,              \* concatenation of all queue samples written to outputs
    output,               \* output buffer as left by the last drain callback
    copied,               \* number of queue samples copied by the last drain callback
    prevQueue,            \* the queue as it was before the last drain callback
    nAdds,                \* number of addPCM16 calls made (bounded)
    nDrains,              \* number of drain callbacks run (bounded)
    \* ---- what the last handler did
    last,                 \* [op, sid, arg, released, err]
    \* ---- ChatRepository fields
    repo,                 \* [activeMediaStream, inputAudioContext, audioStreamPlayer,
                          \*  sessionPromise, activeScriptProcessor, setupComplete,
                          \*  audioReceivedLogged, debugAudioChunksReceived,
                          \*  debugAudioChunksSent]; a handle is 0 (null) or an id
    \* ---- platform resources behind the handles
    res,                  \* [liveStreams, openInCtx, suspendedInCtx, procConnected]
    procs,                \* capture processor id -> [ctx, chunkCount]
    \* ---- one entry per start request: the call's position and its transport
    sess,                 \* id -> [pc, transport, resolved, setupDone, timer,
                          \*        pending, framesSent, earlyFrames, toolSent]
    nStarts,              \* number of start requests made
    messages,             \* updates delivered to the view model by onMessage
    nEvents,              \* number of data events of the session (bounded)
    \* ---- the resamplers exercised on their own
    resampled             \* last application: [fn, buffer, sampleRate,
                          \*   outSampleRate, result, err]

playerObs  == <<enqueued, emitted, output, copied, prevQueue, nAdds, nDrains>>
tmplVars   == <<activeTemplate, nChanges>>
viewVars   == <<liveState, error, activeTemplate, nChanges>>
sessVars   == <<repo, res, procs, sess, nStarts, messages, nEvents>>
vars == <<liveState, error, activeTemplate, nChanges, players,
          enqueued, emitted, output, copied, prevQueue, nAdds, nDrains, last,
          repo, res, procs, sess, nStarts, messages, nEvents, resampled>>

----------------------------------------------------------------------------
(* Bounds *)

\* length of the output buffer handed to the drain callback
\* (createScriptProcessor(4096, 1, 1) in the source, scaled down)
BufferSize == 3
\* number of addPCM16 calls explored
MaxAdds == 2
\* number of drain callbacks explored
MaxDrains == 3

\* number of start requests (sessions, player objects) explored
MaxStarts == 2
\* number of data events explored while a session runs: capture callbacks
\* that pass a frame on, server messages other than setup-complete, and
\* drain callbacks
MaxEvents == 2
\* number of data events explored in a run that restarts the session
MaxEventsRestart == 1
\* number of changeTemplate calls explored
MaxTemplateChanges == 1

(* Program constants *)
sourceRate == 24000

\* ids of the templates offered (two of the entries of TEMPLATES)
TEMPLATES == {"holiday-prep", "meeting-master"}

\* sample rates the output hardware may report (audioContext.sampleRate)
NativeRates == {24000, 48000, 16000}
\* the rate reported while a session runs
SessionRates == {48000}

\* content of an output buffer position the callback has not written
Unwritten == 2000000000
\* the value of arithmetic on an element read outside its array
NaN == 1999999999

\* length of the blocks given to the resamplers on their own
MaxBlock == 7
\* longest queue given to the drain callback stepped on its own
MaxQueue == 2
\* loop iterations of the drain callback explored
MaxIters == 8
\* sample rates of the capture device and of the output device
DeviceRates == {8000, 16000, 24000, 32000, 44100, 48000}
\* target rates asked of downsampleBuffer (the capture path asks for 16000)
OutRates == {16000, 24000}
\* blocks of samples: a ramp and an alternating block of every length
Blocks == { [i \in 1..n |-> i] : n \in 0..MaxBlock }
            \cup { [i \in 1..n |-> IF i % 2 = 1 THEN 5 ELSE 0 - 3] : n \in 1..MaxBlock }

\* decoded byte strings (result of atob) offered to addPCM16:
\* empty, one sample, two samples, three samples, odd length
\* blocks, among them a zero-length one, and queues of them
DrainBlocks == {<<>>, <<1>>, <<1, 2>>, <<1, 2, 3, 4>>}
DrainQueues == UNION {[1..n -> DrainBlocks] : n \in 0..MaxQueue}

\* samples from -1.0 to +1.0 given to createBlob, in pairs
FullScaleSamples ==
    {[accum |-> n, count |-> 1] :
        n \in {-32768, -32767, -16384, -1, 0, 1, 16384, 32767, 32768}}
      \cup {[accum |-> n, count |-> 2] : n \in {-65535, -1, 1, 65535}}
EncodeInputs == {<<x, y>> : x \in FullScaleSamples, y \in FullScaleSamples}
\* every frame of one 16-bit value
Int16Frames == {<<lo, hi>> : lo \in 0..255, hi \in 0..255}

PCMFrames == { <<>>, <<1, 0>>, <<2, 0, 3, 0>>, <<4, 0, 5, 0, 254, 255>>, <<7>> }

----------------------------------------------------------------------------
(* Helpers *)

Min(a, b) == IF a < b THEN a ELSE b

\* Math.round for a non-negative rational n/d: floor(n/d + 1/2)
RoundDiv(n, d) == (2 * n + d) \div (2 * d)

RECURSIVE Flatten(_)
Flatten(q) == IF q = <<>> THEN <<>> ELSE Head(q) \o Flatten(Tail(q))

Fill(buf, v, from) == [i \in 1..Len(buf) |-> IF i > from THEN v ELSE buf[i]]

----------------------------------------------------------------------------
(* AudioStreamPlayer *)

\* audioContext: 0 is null, otherwise the context's sampleRate;
\* pc: "idle", or "resuming" while start() awaits audioContext.resume()
NewAudioStreamPlayer ==
    [audioContext |-> 0, scriptNode |-> FALSE, audioQueue |-> <<>>,
     isPlaying |-> FALSE, pc |-> "idle"]

\* new Int16Array(bytes.buffer): little-endian pairs, two's complement
Int16At(bytes, i) ==
    LET u == bytes[2 * i - 1] + 256 * bytes[2 * i]
    IN  IF u >= 32768 THEN u - 65536 ELSE u

\* int16[i] / 32768.0, as the numerator over 32768
ToFloat32(bytes) == [i \in 1..(Len(bytes) \div 2) |-> Int16At(bytes, i)]

\* a typed-array read: an index outside the array yields undefined, which
\* turns the arithmetic it enters into NaN
At(array, index) ==
    IF index >= 0 /\ index < Len(array) THEN array[index + 1] ELSE NaN

\* Math.floor(i * ratio), ratio = sourceRate / targetRate
ResampleIndex1(i, targetRate) == (i * sourceRate) \div targetRate

\* mutant of ResampleIndex2: the upper index is not clamped
ResampleIndex2Unclamped(i, length, targetRate) == ResampleIndex1(i, targetRate) + 1

\* Math.min(index1 + 1, inputChunk.length - 1)
ResampleIndex2(i, length, targetRate) ==
    Min(ResampleIndex1(i, targetRate) + 1, length - 1)

\* Math.round(inputChunk.length / ratio)
ResampleLength(length, targetRate) == RoundDiv(length * targetRate, sourceRate)

\* mutant of resampleToNative: the device is taken to run at 48000 Hz
resampleToNativeFixedRate(inputChunk, targetRate) ==
    IF targetRate = 0 THEN inputChunk
    ELSE [k \in 1..ResampleLength(Len(inputChunk), 48000) |->
            LET i == k - 1
                r == (i * sourceRate) % 48000
                a == At(inputChunk, ResampleIndex1(i, 48000))
                b == At(inputChunk, ResampleIndex2(i, Len(inputChunk), 48000))
            IN  IF a = NaN \/ b = NaN THEN NaN ELSE a * (48000 - r) + b * r]

resampleToNative(inputChunk, targetRate) ==
    IF targetRate = 0 THEN inputChunk
    ELSE IF targetRate = sourceRate THEN inputChunk
    ELSE
      LET newLength == ResampleLength(Len(inputChunk), targetRate)
      IN  [k \in 1..newLength |->
            LET i == k - 1
                r == (i * sourceRate) % targetRate
                a == At(inputChunk, ResampleIndex1(i, targetRate))
                b == At(inputChunk, ResampleIndex2(i, Len(inputChunk), targetRate))
            IN  \* inputChunk[index1] * (1 - weight) + inputChunk[index2] * weight
                \* with weight = r / targetRate; numerator over 32768 * targetRate
                IF a = NaN \/ b = NaN THEN NaN ELSE a * (targetRate - r) + b * r]

----------------------------------------------------------------------------
(* ChatRepository.downsampleBuffer and the capture data path *)

\* mutant of downsampleLength: the length is multiplied by the ratio
downsampleLengthInverted(length, sampleRate, outSampleRate) ==
    RoundDiv(length * sampleRate, outSampleRate)

\* Math.round(buffer.length / sampleRateRatio), sampleRateRatio = sampleRate / outSampleRate
downsampleLength(length, sampleRate, outSampleRate) ==
    RoundDiv(length * outSampleRate, sampleRate)

\* Math.round((offsetResult + 1) * sampleRateRatio)
nextOffsetBuffer(offsetResult, sampleRate, outSampleRate) ==
    RoundDiv((offsetResult + 1) * sampleRate, outSampleRate)

\* mutant of SpanEnd: the inner loop has no test against buffer.length
SpanEndUnguarded(next, length) == next

\* the inner loop runs while i < nextOffsetBuffer && i < buffer.length
SpanEnd(next, length) == Min(next, length)

\* the input spans of the successive output samples: for each one the first
\* index read (offsetBuffer), nextOffsetBuffer, and the index after the last
\* one read
RECURSIVE downsampleSpans(_, _, _, _, _, _)
downsampleSpans(length, sampleRate, outSampleRate, newLength, offsetResult, offsetBuffer) ==
    IF offsetResult < newLength
    THEN LET next == nextOffsetBuffer(offsetResult, sampleRate, outSampleRate)
         IN  <<[from |-> offsetBuffer, next |-> next,
                to |-> IF SpanEnd(next, length) > offsetBuffer
                       THEN SpanEnd(next, length) ELSE offsetBuffer]>>
               \o downsampleSpans(length, sampleRate, outSampleRate, newLength,
                                  offsetResult + 1, next)
    ELSE <<>>

\* accum and count of the inner loop over buffer[from .. to - 1]
RECURSIVE Accumulate(_, _, _)
Accumulate(buffer, from, to) ==
    IF from >= to THEN [accum |-> 0, count |-> 0]
    ELSE LET rest == Accumulate(buffer, from + 1, to)
             v    == At(buffer, from)
         IN  [accum |-> IF v = NaN \/ rest.accum = NaN THEN NaN ELSE v + rest.accum,
              count |-> rest.count + 1]

\* downsampleBuffer: the input itself when no downsampling is done, else one
\* [accum, count] per output sample, standing for accum / count (0 if count = 0)
downsampleBuffer(buffer, sampleRate, outSampleRate) ==
    IF outSampleRate = sampleRate THEN buffer
    ELSE IF outSampleRate > sampleRate THEN buffer
    ELSE LET newLength == downsampleLength(Len(buffer), sampleRate, outSampleRate)
             spans == downsampleSpans(Len(buffer), sampleRate, outSampleRate,
                                      newLength, 0, 0)
         IN  [k \in 1..newLength |-> Accumulate(buffer, spans[k].from, spans[k].to)]

\* the capture callback from inputData to finalData; contextRate 0: no context
finalData(inputData, contextRate) ==
    LET currentRate == IF contextRate = 0 THEN 16000 ELSE contextRate
    IN  IF currentRate # 16000
        THEN downsampleBuffer(inputData, currentRate, 16000)
        ELSE inputData


----------------------------------------------------------------------------
(* createBlob: 16-bit PCM encoding of the captured samples *)

\* a sample handed to createBlob stands for accum / (32768 * count), as the
\* samples of downsampleBuffer do; Ratio(n) is the sample n / 32768
Ratio(n) == [accum |-> n, count |-> 1]
AsRatio(block) == [i \in 1..Len(block) |-> Ratio(block[i])]

\* Int16Array store, first step: the number is truncated toward zero
Trunc(a, c) == IF a >= 0 THEN a \div c ELSE 0 - ((0 - a) \div c)

\* Int16Array store, second step: the integer is wrapped modulo 2^16
ToInt16(n) == ((n + 32768) % 65536) - 32768

\* mutant of EncodeSample: the sample is scaled by 32767
EncodeSampleScale32767(x) ==
    IF x.count = 0 \/ x.accum = NaN THEN 0
    ELSE ToInt16(Trunc(x.accum * 32767, x.count * 32768))

\* int16[i] = data[i] * 32768 (NaN is stored as 0)
EncodeSample(x) ==
    IF x.count = 0 \/ x.accum = NaN THEN 0
    ELSE ToInt16(Trunc(x.accum, x.count))

\* new Uint8Array(int16.buffer): the two bytes of a value, low byte first
Int16Bytes(v) ==
    LET u == IF v < 0 THEN v + 65536 ELSE v
    IN  <<u % 256, u \div 256>>

\* createBlob(data): the bytes of the frame
createBlob(data) == Flatten([i \in 1..Len(data) |-> Int16Bytes(EncodeSample(data[i]))])

----------------------------------------------------------------------------
(* The drain callback *)

\* mutant of NextQueue: a zero-length head block is not shifted
NextQueueKeepsEmpty(queue, chunkLength) ==
    IF chunkLength = Len(queue[1]) /\ chunkLength > 0
    THEN Tail(queue)
    ELSE <<SubSeq(queue[1], chunkLength + 1, Len(queue[1]))>> \o Tail(queue)

\* mutant of NextQueue: the consumed prefix of the head block is kept
NextQueueKeepsHead(queue, chunkLength) ==
    IF chunkLength = Len(queue[1]) THEN Tail(queue) ELSE queue

\* mutant of NextQueue: a partly consumed head block is dropped whole
NextQueueDropsRest(queue, chunkLength) == Tail(queue)

\* "Manage the queue": shift a finished chunk, else keep the rest of it
NextQueue(queue, chunkLength) ==
    IF chunkLength = Len(queue[1])
    THEN Tail(queue)
    ELSE <<SubSeq(queue[1], chunkLength + 1, Len(queue[1]))>> \o Tail(queue)

\* the condition of the loop of the drain callback
DrainCondition(queue, out, offset) == offset < Len(out) /\ Len(queue) > 0

\* one iteration of the loop of the drain callback
DrainStep(queue, out, offset) ==
    LET nextBuffer  == queue[1]
        chunkLength == Min(Len(nextBuffer), Len(out) - offset)
        out2 == [i \in 1..Len(out) |->
                   IF i > offset /\ i <= offset + chunkLength
                   THEN nextBuffer[i - offset] ELSE out[i]]
    IN  [queue |-> NextQueue(queue, chunkLength), out |-> out2,
         offset |-> offset + chunkLength]

\* the loop of the drain callback
RECURSIVE DrainLoop(_, _, _)
DrainLoop(queue, out, offset) ==
    IF DrainCondition(queue, out, offset)
    THEN LET r == DrainStep(queue, out, offset)
         IN  DrainLoop(r.queue, r.out, r.offset)
    ELSE [queue |-> queue, out |-> out, offset |-> offset]

\* mutant of onaudioprocess: the remainder of the buffer is not filled
onaudioprocessNoFill(q, out) ==
    IF Len(q) = 0
    THEN [queue |-> q, out |-> Fill(out, 0, 0), offset |-> 0]
    ELSE DrainLoop(q, out, 0)

\* scriptNode.onaudioprocess: result of one callback on queue q and buffer out
onaudioprocess(q, out) ==
    IF Len(q) = 0
    THEN [queue |-> q, out |-> Fill(out, 0, 0), offset |-> 0]
    ELSE LET r == DrainLoop(q, out, 0)
         IN  IF r.offset < Len(out)
             THEN [queue |-> r.queue, out |-> Fill(r.out, 0, r.offset), offset |-> r.offset]
             ELSE r

\* addPCM16 on player p: the new queue (the call throws on an odd byte count)
addPCM16Throws(p, bytes) == p.audioContext # 0 /\ Len(bytes) % 2 = 1

addPCM16(p, bytes) ==
    IF p.audioContext = 0 THEN p
    ELSE IF Len(bytes) % 2 = 1 THEN p
    ELSE [p EXCEPT !.audioQueue =
            Append(@, resampleToNative(ToFloat32(bytes), p.audioContext))]

\* start(), up to the await of audioContext.resume()
AudioStreamPlayer_start(p, rate, suspended) ==
    IF suspended
    THEN [p EXCEPT !.audioContext = rate, !.pc = "resuming"]
    ELSE [p EXCEPT !.audioContext = rate, !.scriptNode = TRUE, !.isPlaying = TRUE]

\* start(), after the await: this.audioContext is dereferenced again
AudioStreamPlayer_resumedThrows(p) == p.audioContext = 0

AudioStreamPlayer_resumed(p) ==
    IF p.audioContext = 0
    THEN [p EXCEPT !.pc = "idle"]
    ELSE [p EXCEPT !.scriptNode = TRUE, !.isPlaying = TRUE, !.pc = "idle"]

\* what stop() releases
AudioStreamPlayer_stopReleases(p) ==
    (IF p.scriptNode THEN {"scriptNode"} ELSE {})
        \cup (IF p.audioContext # 0 THEN {"audioContext"} ELSE {})

\* mutant of AudioStreamPlayer_stop: the output context is kept
AudioStreamPlayer_stopKeepsContext(p) ==
    [p EXCEPT !.scriptNode = FALSE, !.audioQueue = <<>>, !.isPlaying = FALSE]

\* stop()
AudioStreamPlayer_stop(p) ==
    [p EXCEPT !.scriptNode = FALSE, !.audioContext = 0,
              !.audioQueue = <<>>, !.isPlaying = FALSE]

PlayerIds == 1..MaxStarts

\* last: op names the handler, sid the object or session it ran on, arg its
\* argument, released what it released, err the error it raised or reported
NoEffect == [op |-> "init", sid |-> 0, arg |-> 0, released |-> {}, err |-> "none"]

\* a handler whose effect is visible in the state itself leaves this record
Quiet == [NoEffect EXCEPT !.op = "other"]

----------------------------------------------------------------------------
(* The playback pipeline on its own: player 1 driven directly *)

InitView ==
    /\ liveState = "disconnected"
    /\ error = "null"
    /\ activeTemplate = "holiday-prep"
    /\ nChanges = 0

InitPlayers ==
    /\ players = [i \in PlayerIds |-> NewAudioStreamPlayer]
    /\ enqueued = <<>>
    /\ emitted = <<>>
    /\ output = [i \in 1..BufferSize |-> Unwritten]
    /\ copied = 0
    /\ prevQueue = <<>>
    /\ nAdds = 0
    /\ nDrains = 0
    /\ last = NoEffect

NewChatRepository ==
    [activeMediaStream |-> 0, inputAudioContext |-> 0, audioStreamPlayer |-> 0,
     sessionPromise |-> 0, activeScriptProcessor |-> 0, setupComplete |-> FALSE,
     audioReceivedLogged |-> FALSE, debugAudioChunksReceived |-> 0,
     debugAudioChunksSent |-> 0]

\* pc: position of the startLiveSession call ("unused", "awaitMic",
\*     "awaitPlayer", "awaitInput", "done", "failed"); waitCtx: the input
\*     context whose resume() the call awaits;
\* transport: "none", "connecting", "open", "failed" (error event seen), "closed";
\* resolved: the promise returned by ai.live.connect has resolved;
\* setupDone: this session's setup-complete message has been received;
\* timer: the setTimeout of onopen is pending;
\* pending: callbacks registered with then() on the unresolved promise;
\* framesSent / earlyFrames: audio frames sent on this transport, and those
\*     of them sent before this session's setup-complete;
\* toolSent: ids of the tool responses sent on this transport;
\* template: the template argument of the call, used for the connect config
NoSession ==
    [pc |-> "unused", template |-> "none", waitCtx |-> 0, transport |-> "none",
     resolved |-> FALSE,
     setupDone |-> FALSE, timer |-> FALSE, pending |-> <<>>, framesSent |-> 0,
     earlyFrames |-> 0, toolSent |-> <<>>]

\* data events still to explore
EventBudget == IF nStarts <= 1 THEN MaxEvents ELSE MaxEventsRestart

InitSession ==
    /\ repo = NewChatRepository
    /\ res = [liveStreams |-> {}, openInCtx |-> {}, suspendedInCtx |-> {},
              procConnected |-> {}]
    /\ procs = [i \in PlayerIds |-> [ctx |-> 0, chunkCount |-> 0]]
    /\ sess = [i \in PlayerIds |-> NoSession]
    /\ nStarts = 0
    /\ messages = <<>>
    /\ nEvents = 0
    /\ resampled = [fn |-> "none", buffer |-> <<>>, sampleRate |-> 0,
                    outSampleRate |-> 0, result |-> <<>>, err |-> "none"]

Init == InitView /\ InitPlayers /\ InitSession

\* the device invokes scriptNode.onaudioprocess of player id
Drain(id) ==
    /\ players[id].scriptNode
    /\ nDrains < MaxDrains
    /\ LET r == onaudioprocess(players[id].audioQueue,
                               [i \in 1..BufferSize |-> Unwritten])
       IN  /\ players' = [players EXCEPT ![id].audioQueue = r.queue]
           /\ output' = r.out
           /\ copied' = r.offset
           /\ prevQueue' = players[id].audioQueue
           /\ emitted' = IF id = 1 THEN emitted \o SubSeq(r.out, 1, r.offset) ELSE emitted
    /\ nDrains' = nDrains + 1
    /\ last' = [NoEffect EXCEPT !.op = "drain", !.sid = id]
    /\ UNCHANGED <<enqueued, nAdds>>

\* the queue content pushed onto player id by addPCM16(bytes)
Pushed(id, bytes) ==
    LET q  == players[id].audioQueue
        q2 == addPCM16(players[id], bytes).audioQueue
    IN  IF Len(q2) > Len(q) THEN q2[Len(q2)] ELSE <<>>

PStart(rate, suspended) ==
    /\ players[1].audioContext = 0
    /\ players[1].pc = "idle"
    /\ players' = [players EXCEPT ![1] = AudioStreamPlayer_start(@, rate, suspended)]
    /\ enqueued' = <<>>
    /\ emitted' = <<>>
    /\ last' = [NoEffect EXCEPT !.op = "playerStart", !.sid = 1]
    /\ UNCHANGED <<viewVars, resampled, sessVars, output, copied, prevQueue, nAdds, nDrains>>

PResumed ==
    /\ players[1].pc = "resuming"
    /\ players' = [players EXCEPT ![1] = AudioStreamPlayer_resumed(@)]
    /\ last' = [NoEffect EXCEPT !.op = "playerResumed", !.sid = 1,
                                !.err = IF AudioStreamPlayer_resumedThrows(players[1])
                                        THEN "TypeError" ELSE "none"]
    /\ UNCHANGED <<viewVars, resampled, sessVars, playerObs>>

PAdd(bytes) ==
    /\ nAdds < MaxAdds
    /\ players' = [players EXCEPT ![1] = addPCM16(@, bytes)]
    /\ enqueued' = enqueued \o Pushed(1, bytes)
    /\ nAdds' = nAdds + 1
    /\ last' = [NoEffect EXCEPT !.op = "addPCM16", !.sid = 1, !.arg = Len(bytes),
                                !.err = IF addPCM16Throws(players[1], bytes)
                                        THEN "RangeError" ELSE "none"]
    /\ UNCHANGED <<viewVars, resampled, sessVars, emitted, output, copied, prevQueue, nDrains>>

PDrain ==
    /\ Drain(1)
    /\ UNCHANGED <<viewVars, resampled, sessVars>>

PStop ==
    /\ players' = [players EXCEPT ![1] = AudioStreamPlayer_stop(@)]
    /\ last' = [NoEffect EXCEPT !.op = "playerStop", !.sid = 1,
                                !.released = AudioStreamPlayer_stopReleases(players[1])]
    /\ UNCHANGED <<viewVars, resampled, sessVars, playerObs>>

NextPlayer ==
    \/ \E rate \in NativeRates, suspended \in BOOLEAN : PStart(rate, suspended)
    \/ PResumed
    \/ \E bytes \in PCMFrames : PAdd(bytes)
    \/ PDrain
    \/ PStop

SpecPlayer == Init /\ [][NextPlayer]_vars

----------------------------------------------------------------------------
(* ChatRepository: teardown *)

World == [repo |-> repo, res |-> res, players |-> players]

SetWorld(w) ==
    /\ repo' = w.repo
    /\ res' = w.res
    /\ players' = w.players

\* the resources the handles of w refer to and a teardown releases
HeldResources(w) ==
    (IF w.repo.activeMediaStream # 0 THEN {"mediaStream"} ELSE {})
      \cup (IF w.repo.activeScriptProcessor # 0 THEN {"scriptProcessor"} ELSE {})
      \cup (IF w.repo.inputAudioContext # 0 THEN {"inputAudioContext"} ELSE {})
      \cup (IF w.repo.audioStreamPlayer # 0
            THEN {"audioStreamPlayer"}
                   \cup AudioStreamPlayer_stopReleases(w.players[w.repo.audioStreamPlayer])
            ELSE {})

\* mutant of stopLiveSession: the media stream handle is not cleared
stopLiveSessionKeepsStream(w) ==
    [repo |-> [w.repo EXCEPT !.sessionPromise = 0,
                             !.activeScriptProcessor = 0,
                             !.inputAudioContext = 0,
                             !.audioStreamPlayer = 0,
                             !.audioReceivedLogged = FALSE],
     res |-> [w.res EXCEPT !.liveStreams = @ \ {w.repo.activeMediaStream},
                           !.procConnected = @ \ {w.repo.activeScriptProcessor},
                           !.openInCtx = @ \ {w.repo.inputAudioContext},
                           !.suspendedInCtx = @ \ {w.repo.inputAudioContext}],
     players |-> IF w.repo.audioStreamPlayer # 0
                 THEN [w.players EXCEPT ![w.repo.audioStreamPlayer] =
                                            AudioStreamPlayer_stop(@)]
                 ELSE w.players]

\* the teardown steps of stopLiveSession, in the order the code runs them;
\* step 1 drops the session handle, the session itself is not closed
stopLiveSessionSteps(w) ==
    (IF w.repo.sessionPromise # 0 THEN <<"sessionPromise">> ELSE <<>>)
      \o (IF w.repo.activeMediaStream # 0 THEN <<"mediaStream">> ELSE <<>>)
      \o (IF w.repo.activeScriptProcessor # 0 THEN <<"scriptProcessor">> ELSE <<>>)
      \o (IF w.repo.inputAudioContext # 0 THEN <<"inputAudioContext">> ELSE <<>>)
      \o (IF w.repo.audioStreamPlayer # 0 THEN <<"audioStreamPlayer">> ELSE <<>>)

\* stopLiveSession(): setupComplete is left as it is
stopLiveSession(w) ==
    [repo |-> [w.repo EXCEPT !.sessionPromise = 0,
                             !.activeMediaStream = 0,
                             !.activeScriptProcessor = 0,
                             !.inputAudioContext = 0,
                             !.audioStreamPlayer = 0,
                             !.audioReceivedLogged = FALSE],
     res |-> [w.res EXCEPT !.liveStreams = @ \ {w.repo.activeMediaStream},
                           !.procConnected = @ \ {w.repo.activeScriptProcessor},
                           !.openInCtx = @ \ {w.repo.inputAudioContext},
                           !.suspendedInCtx = @ \ {w.repo.inputAudioContext}],
     players |-> IF w.repo.audioStreamPlayer # 0
                 THEN [w.players EXCEPT ![w.repo.audioStreamPlayer] =
                                            AudioStreamPlayer_stop(@)]
                 ELSE w.players]

\* cleanupSession(): as stopLiveSession, and setupComplete is reset
cleanupSession(w) ==
    [repo |-> [w.repo EXCEPT !.activeMediaStream = 0,
                             !.activeScriptProcessor = 0,
                             !.inputAudioContext = 0,
                             !.audioStreamPlayer = 0,
                             !.sessionPromise = 0,
                             !.audioReceivedLogged = FALSE,
                             !.setupComplete = FALSE],
     res |-> [w.res EXCEPT !.liveStreams = @ \ {w.repo.activeMediaStream},
                           !.procConnected = @ \ {w.repo.activeScriptProcessor},
                           !.openInCtx = @ \ {w.repo.inputAudioContext},
                           !.suspendedInCtx = @ \ {w.repo.inputAudioContext}],
     players |-> IF w.repo.audioStreamPlayer # 0
                 THEN [w.players EXCEPT ![w.repo.audioStreamPlayer] =
                                            AudioStreamPlayer_stop(@)]
                 ELSE w.players]

----------------------------------------------------------------------------
(* useChatViewModel.toggleLiveSession / clearConversation and              *)
(* ChatRepository.startLiveSession                                         *)

\* toggleLiveSession while connected or connecting: stop
ToggleStop ==
    /\ liveState \in {"connected", "connecting"}
    /\ SetWorld(stopLiveSession(World))
    /\ liveState' = "disconnected"
    /\ last' = [NoEffect EXCEPT !.op = "stop", !.released = HeldResources(World)]
    /\ UNCHANGED <<error, tmplVars, resampled, procs, sess, nStarts, messages, nEvents, playerObs>>

\* clearConversation: stop whatever the state is, reset the conversation
ClearConversation ==
    /\ SetWorld(stopLiveSession(World))
    /\ liveState' = "disconnected"
    /\ messages' = <<>>
    /\ last' = [NoEffect EXCEPT !.op = "stop", !.released = HeldResources(World)]
    /\ UNCHANGED <<error, tmplVars, resampled, procs, sess, nStarts, nEvents, playerObs>>

\* changeTemplate(t): while connected or connecting the session is stopped
\* first, then the template is replaced
ChangeTemplate(t) ==
    /\ nChanges < MaxTemplateChanges
    /\ IF liveState \in {"connected", "connecting"}
       THEN /\ SetWorld(stopLiveSession(World))
            /\ liveState' = "disconnected"
            /\ last' = [NoEffect EXCEPT !.op = "changeTemplate", !.arg = 1,
                                        !.released = HeldResources(World)]
       ELSE /\ UNCHANGED <<repo, res, players, liveState>>
            /\ last' = [NoEffect EXCEPT !.op = "changeTemplate"]
    /\ activeTemplate' = t
    /\ nChanges' = nChanges + 1
    /\ UNCHANGED <<error, resampled, procs, sess, nStarts, messages, nEvents, playerObs>>

\* mutant of ToggleStart: the state is not changed when the call begins
ToggleStartKeepsState ==
    /\ liveState \notin {"connected", "connecting"}
    /\ nStarts < MaxStarts
    /\ nStarts = 0 \/ nEvents <= MaxEventsRestart
    /\ error' = "null"
    /\ liveState' = liveState
    /\ nStarts' = nStarts + 1
    /\ sess' = [sess EXCEPT ![nStarts + 1].pc = "awaitMic",
                            ![nStarts + 1].template = activeTemplate]
    /\ UNCHANGED <<tmplVars, resampled, repo, res, players, procs, messages, nEvents, playerObs>>
    /\ last' = Quiet

\* toggleLiveSession otherwise: setError(null), then startLiveSession up to
\* the await of getUserMedia
ToggleStart ==
    /\ liveState \notin {"connected", "connecting"}
    /\ nStarts < MaxStarts
    /\ nStarts = 0 \/ nEvents <= MaxEventsRestart
    /\ error' = "null"
    /\ liveState' = "connecting"
    /\ nStarts' = nStarts + 1
    /\ sess' = [sess EXCEPT ![nStarts + 1].pc = "awaitMic",
                            ![nStarts + 1].template = activeTemplate]
    /\ UNCHANGED <<tmplVars, resampled, repo, res, players, procs, messages, nEvents, playerObs>>
    /\ last' = Quiet

\* mutant of Fail: the error is not passed to onError
FailUnreported(w, s, kind) ==
    /\ error' = error
    /\ liveState' = "error"
    /\ SetWorld(cleanupSession(w))
    /\ sess' = [sess EXCEPT ![s].pc = "failed"]
    /\ UNCHANGED <<tmplVars, resampled>>
    /\ last' = [NoEffect EXCEPT !.op = "startFailed", !.sid = s, !.err = kind,
                                !.released = HeldResources(w)]

\* the catch block of startLiveSession
Fail(w, s, kind) ==
    /\ error' = kind
    /\ liveState' = "error"
    /\ SetWorld(cleanupSession(w))
    /\ sess' = [sess EXCEPT ![s].pc = "failed"]
    /\ UNCHANGED <<tmplVars, resampled>>
    /\ last' = [NoEffect EXCEPT !.op = "startFailed", !.sid = s, !.err = kind,
                                !.released = HeldResources(w)]

\* startLiveSession suspends at an await
Await(w, s, pc, c) ==
    /\ SetWorld(w)
    /\ sess' = [sess EXCEPT ![s].pc = pc, ![s].waitCtx = c]
    /\ UNCHANGED <<viewVars, resampled>>
    /\ last' = Quiet

\* this.sessionPromise = this.ai.live.connect(...)
ConnectStep(w, s) ==
    /\ SetWorld([w EXCEPT !.repo.sessionPromise = s])
    /\ sess' = [sess EXCEPT ![s].pc = "done", ![s].transport = "connecting"]
    /\ UNCHANGED <<viewVars, resampled>>
    /\ last' = Quiet

\* startLiveSession from the return of audioStreamPlayer.start() on:
\* this.audioStreamPlayer.getState(), this.inputAudioContext.state
AfterPlayerStart(w, s) ==
    IF w.repo.audioStreamPlayer = 0 \/ w.repo.inputAudioContext = 0
    THEN Fail(w, s, "TypeError")
    ELSE IF w.repo.inputAudioContext \in w.res.suspendedInCtx
    THEN Await(w, s, "awaitInput", w.repo.inputAudioContext)
    ELSE ConnectStep(w, s)

\* steps 1 to 3: the stream, the input context and the player are stored
Acquire(w, s, rate, susp) ==
    [repo |-> [w.repo EXCEPT !.activeMediaStream = s,
                             !.inputAudioContext = s,
                             !.audioStreamPlayer = s],
     res |-> [w.res EXCEPT !.liveStreams = @ \cup {s},
                           !.openInCtx = @ \cup {s},
                           !.suspendedInCtx = IF susp THEN @ \cup {s} ELSE @],
     players |-> [w.players EXCEPT ![s] =
                    AudioStreamPlayer_start(NewAudioStreamPlayer, rate, susp)]]

\* getUserMedia rejects
MicDenied(s) ==
    /\ sess[s].pc = "awaitMic"
    /\ Fail(World, s, "Microphone access denied")
    /\ UNCHANGED <<procs, nStarts, messages, nEvents, playerObs>>

\* getUserMedia resolves, then new AudioContextClass() throws
DeviceFails(s) ==
    /\ sess[s].pc = "awaitMic"
    /\ Fail([World EXCEPT !.repo.activeMediaStream = s,
                          !.res.liveStreams = @ \cup {s}], s, "DeviceError")
    /\ UNCHANGED <<procs, nStarts, messages, nEvents, playerObs>>

\* getUserMedia resolves and the contexts are created; susp: the platform
\* creates audio contexts in the suspended state
MicGranted(s, rate, susp) ==
    /\ sess[s].pc = "awaitMic"
    /\ LET w == Acquire(World, s, rate, susp)
       IN  IF susp THEN Await(w, s, "awaitPlayer", 0) ELSE AfterPlayerStart(w, s)
    /\ UNCHANGED <<procs, nStarts, messages, nEvents, playerObs>>

\* the resume() awaited inside AudioStreamPlayer.start() settles
PlayerResumed(s) ==
    /\ sess[s].pc = "awaitPlayer"
    /\ LET w == [World EXCEPT !.players[s] = AudioStreamPlayer_resumed(@)]
       IN  IF AudioStreamPlayer_resumedThrows(players[s])
           THEN Fail(w, s, "TypeError")
           ELSE AfterPlayerStart(w, s)
    /\ UNCHANGED <<procs, nStarts, messages, nEvents, playerObs>>

\* the awaited inputAudioContext.resume() settles
InputResumed(s) ==
    /\ sess[s].pc = "awaitInput"
    /\ LET c == sess[s].waitCtx
           w == [World EXCEPT !.res.suspendedInCtx = @ \ {c}]
       IN  IF c \notin res.openInCtx THEN Fail(w, s, "InvalidStateError")
           ELSE IF repo.inputAudioContext = 0 THEN Fail(w, s, "TypeError")
           ELSE ConnectStep(w, s)
    /\ UNCHANGED <<procs, nStarts, messages, nEvents, playerObs>>

----------------------------------------------------------------------------
(* Transport callbacks, capture callback *)

\* an optional value: <<>> is undefined, <<v>> is the value v
Undefined == <<>>
Some(v) == <<v>>

\* server messages: setup-complete, one audio part, generateTable calls
MsgSetupComplete == [setupComplete |-> TRUE, toolCall |-> <<>>, parts |-> <<>>]
MsgAudio == [setupComplete |-> FALSE, toolCall |-> <<>>,
             parts |-> <<[data |-> <<2, 0, 3, 0>>]>>]
MsgTable == [setupComplete |-> FALSE,
             toolCall |-> <<[id |-> 101, name |-> "generateTable",
                             args |-> [title |-> Some("T"),
                                       columns |-> Some(<<"A">>),
                                       rows |-> Some(<<"r1">>),
                                       summary |-> Undefined]]>>,
             parts |-> <<>>]
\* one generateTable call whose arguments lack the rows field
MsgNoRows == [setupComplete |-> FALSE,
              toolCall |-> <<[id |-> 102, name |-> "generateTable",
                              args |-> [title |-> Some("N"),
                                        columns |-> Some(<<"A">>),
                                        rows |-> Undefined,
                                        summary |-> Undefined]]>>,
              parts |-> <<>>]
\* two generateTable calls in one message: the call of MsgTable, then another
MsgTwoCalls == [setupComplete |-> FALSE,
                toolCall |-> MsgTable.toolCall \o
                             <<[id |-> 104, name |-> "generateTable",
                                args |-> [title |-> Some("V"),
                                          columns |-> Some(<<"A">>),
                                          rows |-> Some(<<"r1", "r2">>),
                                          summary |-> Undefined]]>>,
                parts |-> <<>>]
ContentMessages == {MsgAudio, MsgNoRows, MsgTwoCalls}

\* close event codes; 0 stands for an event without a code
CloseCodes == {1000, 1006, 0}

\* the state a callback works on
Handler ==
    [repo |-> repo, players |-> players, sess |-> sess, procs |-> procs,
     messages |-> messages, enqueued |-> enqueued, nAdds |-> nAdds, threw |-> FALSE]

SetHandler(h) ==
    /\ repo' = h.repo
    /\ players' = h.players
    /\ sess' = h.sess
    /\ procs' = h.procs
    /\ messages' = h.messages
    /\ enqueued' = h.enqueued
    /\ nAdds' = h.nAdds

\* then-callback of the capture callback of processor p, on session t:
\* session.sendRealtimeInput, chunkCount++, debugAudioChunksSent = chunkCount
SendAudio(h, t, p) ==
    IF h.sess[t].transport # "open" THEN h
    ELSE [h EXCEPT !.sess[t].framesSent = @ + 1,
                   !.sess[t].earlyFrames = IF h.sess[t].setupDone THEN @ ELSE @ + 1,
                   !.procs[p].chunkCount = @ + 1,
                   !.repo.debugAudioChunksSent = h.procs[p].chunkCount + 1]

\* then-callback of a tool call: session.sendToolResponse
SendToolResponse(h, t, id) ==
    IF h.sess[t].transport # "open" THEN h
    ELSE [h EXCEPT !.sess[t].toolSent = Append(@, id)]

\* promise.then(cb): cb runs at once on a resolved promise, else it waits
Then(h, t, cb) ==
    IF h.sess[t].resolved
    THEN IF cb.kind = "audio" THEN SendAudio(h, t, cb.ref)
                              ELSE SendToolResponse(h, t, cb.ref)
    ELSE [h EXCEPT !.sess[t].pending = Append(@, cb)]

\* the promise of session t resolves: the waiting callbacks run in order
RECURSIVE RunPending(_, _, _)
RunPending(h, t, cbs) ==
    IF cbs = <<>> THEN h
    ELSE LET cb == Head(cbs)
             h2 == IF cb.kind = "audio" THEN SendAudio(h, t, cb.ref)
                                        ELSE SendToolResponse(h, t, cb.ref)
         IN  RunPending(h2, t, Tail(cbs))

\* scriptProcessor.onaudioprocess installed by setupAudioInput
captureProcess(h, p) ==
    IF h.repo.sessionPromise = 0 THEN h
    ELSE IF ~h.repo.setupComplete THEN h
    ELSE Then(h, h.repo.sessionPromise, [kind |-> "audio", ref |-> p])

\* the device invokes the capture callback of processor p
CaptureCallback(p) ==
    /\ p \in res.procConnected
    /\ procs[p].ctx \in res.openInCtx \ res.suspendedInCtx
    /\ nEvents < EventBudget
    /\ SetHandler(captureProcess(Handler, p))
    /\ nEvents' = IF captureProcess(Handler, p) = Handler
                  THEN nEvents ELSE nEvents + 1
    /\ UNCHANGED <<viewVars, resampled, res, nStarts,
                   emitted, output, copied, prevQueue, nDrains>>
    /\ last' = Quiet

\* setupAudioInput(), run by the timer that onopen of session s started
setupAudioInput(h, s) ==
    IF h.repo.inputAudioContext = 0 \/ h.repo.activeMediaStream = 0
          \/ h.repo.sessionPromise = 0
    THEN h
    ELSE [h EXCEPT !.procs[s] = [ctx |-> h.repo.inputAudioContext, chunkCount |-> 0],
                   !.repo.activeScriptProcessor = s]

TimerFires(s) ==
    /\ sess[s].timer
    /\ LET h == setupAudioInput([Handler EXCEPT !.sess[s].timer = FALSE], s)
       IN  /\ SetHandler(h)
           /\ res' = IF h.repo.activeScriptProcessor = repo.activeScriptProcessor
                         /\ h.procs = procs
                     THEN res
                     ELSE [res EXCEPT !.procConnected = @ \cup {s}]
    /\ UNCHANGED <<viewVars, resampled, nStarts, nEvents,
                   emitted, output, copied, prevQueue, nDrains>>
    /\ last' = Quiet

\* mutant of OnOpen: the state is left for setup-complete to change
OnOpenKeepsState(s) ==
    /\ sess[s].transport = "connecting"
    /\ liveState' = liveState
    /\ LET h == [Handler EXCEPT !.sess[s].transport = "open",
                                !.sess[s].resolved = TRUE,
                                !.sess[s].timer = TRUE,
                                !.sess[s].pending = <<>>]
       IN  SetHandler(RunPending(h, s, sess[s].pending))
    /\ UNCHANGED <<error, tmplVars, resampled, res, nStarts, nEvents,
                   emitted, output, copied, prevQueue, nDrains>>
    /\ last' = Quiet

\* callbacks.onopen of session s, then the connect promise resolves
OnOpen(s) ==
    /\ sess[s].transport = "connecting"
    /\ liveState' = "connected"
    /\ LET h == [Handler EXCEPT !.sess[s].transport = "open",
                                !.sess[s].resolved = TRUE,
                                !.sess[s].timer = TRUE,
                                !.sess[s].pending = <<>>]
       IN  SetHandler(RunPending(h, s, sess[s].pending))
    /\ UNCHANGED <<error, tmplVars, resampled, res, nStarts, nEvents,
                   emitted, output, copied, prevQueue, nDrains>>
    /\ last' = Quiet

\* the table handed to onMessage for a generateTable call
TableData(args) ==
    [title   |-> IF args.title = Undefined \/ args.title = Some("")
                 THEN "Data" ELSE args.title[1],
     columns |-> IF args.columns = Undefined THEN <<>> ELSE args.columns[1],
     rows    |-> IF args.rows = Undefined THEN <<>> ELSE args.rows[1],
     summary |-> args.summary]

\* mutant of HandleToolCalls: the calls of a message are taken last first
RECURSIVE HandleToolCallsLastFirst(_, _)
HandleToolCallsLastFirst(h, calls) ==
    IF calls = <<>> THEN h
    ELSE LET fc == calls[Len(calls)]
             h1 == [h EXCEPT !.messages =
                       Append(@, [content |-> "Updating table...",
                                  action |-> "GENERATE_TABLE",
                                  actionData |-> TableData(fc.args)])]
             h2 == IF h1.repo.sessionPromise = 0 THEN h1
                   ELSE Then(h1, h1.repo.sessionPromise,
                             [kind |-> "tool", ref |-> fc.id])
         IN  HandleToolCallsLastFirst(h2, SubSeq(calls, 1, Len(calls) - 1))

\* mutant of HandleToolCalls: the rows of the table shown last are kept and
\* the rows of the call are added to them
RECURSIVE HandleToolCallsMerging(_, _)
HandleToolCallsMerging(h, calls) ==
    IF calls = <<>> THEN h
    ELSE LET fc == Head(calls)
             t  == TableData(fc.args)
             old == IF h.messages = <<>> THEN <<>>
                    ELSE h.messages[Len(h.messages)].actionData.rows
             h1 == [h EXCEPT !.messages =
                       Append(@, [content |-> "Updating table...",
                                  action |-> "GENERATE_TABLE",
                                  actionData |-> [t EXCEPT !.rows = old \o @]])]
             h2 == IF h1.repo.sessionPromise = 0 THEN h1
                   ELSE Then(h1, h1.repo.sessionPromise,
                             [kind |-> "tool", ref |-> fc.id])
         IN  HandleToolCallsMerging(h2, Tail(calls))

\* mutant of HandleToolCalls: a call without rows raises and ends the handler
RECURSIVE HandleToolCallsRequiresRows(_, _)
HandleToolCallsRequiresRows(h, calls) ==
    IF calls = <<>> \/ h.threw THEN h
    ELSE LET fc == Head(calls)
             h1 == [h EXCEPT !.messages =
                       Append(@, [content |-> "Updating table...",
                                  action |-> "GENERATE_TABLE",
                                  actionData |-> TableData(fc.args)])]
             h2 == IF h1.repo.sessionPromise = 0 THEN h1
                   ELSE Then(h1, h1.repo.sessionPromise,
                             [kind |-> "tool", ref |-> fc.id])
         IN  IF fc.args.rows = Undefined
             THEN [h EXCEPT !.threw = TRUE]
             ELSE HandleToolCallsRequiresRows(h2, Tail(calls))

\* the for loop over message.toolCall.functionCalls
RECURSIVE HandleToolCalls(_, _)
HandleToolCalls(h, calls) ==
    IF calls = <<>> THEN h
    ELSE LET fc == Head(calls)
             h1 == [h EXCEPT !.messages =
                       Append(@, [content |-> IF fc.args.summary = Undefined
                                                 \/ fc.args.summary = Some("")
                                              THEN "Updating table..."
                                              ELSE fc.args.summary[1],
                                  action |-> "GENERATE_TABLE",
                                  actionData |-> TableData(fc.args)])]
             h2 == IF h1.repo.sessionPromise = 0 THEN h1
                   ELSE Then(h1, h1.repo.sessionPromise,
                             [kind |-> "tool", ref |-> fc.id])
         IN  IF fc.name = "generateTable"
             THEN HandleToolCalls(h2, Tail(calls))
             ELSE HandleToolCalls(h, Tail(calls))

\* the for loop over serverContent.modelTurn.parts
RECURSIVE HandleParts(_, _)
HandleParts(h, parts) ==
    IF parts = <<>> \/ h.threw THEN h
    ELSE LET part == Head(parts)
             a  == h.repo.audioStreamPlayer
             h1 == [h EXCEPT !.repo.audioReceivedLogged = TRUE,
                             !.repo.debugAudioChunksReceived = @ + 1]
             h2 == IF a = 0 THEN h1
                   ELSE [h1 EXCEPT
                           !.players[a] = addPCM16(@, part.data),
                           !.enqueued =
                               IF a = 1 /\ Len(addPCM16(h.players[a], part.data).audioQueue)
                                             > Len(h.players[a].audioQueue)
                               THEN @ \o resampleToNative(ToFloat32(part.data),
                                                          h.players[a].audioContext)
                               ELSE @,
                           !.nAdds = @ + 1,
                           !.threw = addPCM16Throws(h.players[a], part.data)]
         IN  IF part.data = <<>>
             THEN HandleParts(h, Tail(parts))
             ELSE HandleParts(h2, Tail(parts))

\* callbacks.onmessage of session s
onmessage(h, s, m) ==
    LET h1 == IF m.setupComplete
              THEN [h EXCEPT !.repo.setupComplete = TRUE, !.sess[s].setupDone = TRUE]
              ELSE h
        h2 == HandleToolCalls(h1, m.toolCall)
    IN  HandleParts(h2, m.parts)

\* the server's setup-complete message arrives (once per session)
OnSetupComplete(s) ==
    /\ sess[s].transport = "open"
    /\ ~sess[s].setupDone
    /\ SetHandler(onmessage(Handler, s, MsgSetupComplete))
    /\ UNCHANGED <<viewVars, resampled, res, nStarts, nEvents,
                   emitted, output, copied, prevQueue, nDrains>>
    /\ last' = Quiet

\* another server message arrives
OnMessage(s, m) ==
    /\ sess[s].transport = "open"
    /\ nEvents < EventBudget
    /\ nAdds + Len(m.parts) <= MaxAdds
    /\ LET h == onmessage(Handler, s, m)
       IN  /\ SetHandler(h)
    /\ nEvents' = nEvents + 1
    /\ UNCHANGED <<viewVars, resampled, res, nStarts,
                   emitted, output, copied, prevQueue, nDrains>>
    /\ last' = Quiet

\* mutant of OnClose: the cause of an unexpected close is not reported
OnCloseSilent(s, code) ==
    /\ sess[s].transport \in {"connecting", "open", "failed"}
    /\ sess' = [sess EXCEPT ![s].transport = "closed"]
    /\ liveState' = "disconnected"
    /\ error' = error
    /\ last' = [NoEffect EXCEPT !.op = "onclose", !.sid = s, !.arg = code]
    /\ UNCHANGED <<tmplVars, resampled, repo, res, players, procs, nStarts, messages, nEvents,
                   playerObs>>

\* mutant of OnClose: every close event with a code is reported as an error
OnCloseAlwaysReports(s, code) ==
    /\ sess[s].transport \in {"connecting", "open", "failed"}
    /\ sess' = [sess EXCEPT ![s].transport = "closed"]
    /\ liveState' = "disconnected"
    /\ error' = IF code # 0 THEN "Connection closed" ELSE error
    /\ last' = [NoEffect EXCEPT !.op = "onclose", !.sid = s, !.arg = code,
                                !.err = IF code # 0
                                        THEN "Connection closed" ELSE "none"]
    /\ UNCHANGED <<tmplVars, resampled, repo, res, players, procs, nStarts, messages, nEvents,
                   playerObs>>

\* callbacks.onclose of session s
OnClose(s, code) ==
    /\ sess[s].transport \in {"connecting", "open", "failed"}
    /\ sess' = [sess EXCEPT ![s].transport = "closed"]
    /\ liveState' = "disconnected"
    /\ error' = IF code # 0 /\ code # 1000 THEN "Connection closed" ELSE error
    /\ last' = [NoEffect EXCEPT !.op = "onclose", !.sid = s, !.arg = code,
                                !.err = IF code # 0 /\ code # 1000
                                        THEN "Connection closed" ELSE "none"]
    /\ UNCHANGED <<tmplVars, resampled, repo, res, players, procs, nStarts, messages, nEvents,
                   playerObs>>

\* callbacks.onerror of session s
OnError(s) ==
    /\ sess[s].transport \in {"connecting", "open"}
    /\ sess' = [sess EXCEPT ![s].transport = "failed"]
    /\ liveState' = "error"
    /\ error' = "Connection error"
    /\ last' = [NoEffect EXCEPT !.op = "onerror", !.sid = s,
                                !.err = "Connection error"]
    /\ UNCHANGED <<tmplVars, resampled, repo, res, players, procs, nStarts, messages, nEvents,
                   playerObs>>

\* the output device invokes the drain callback of a player
PlayerDrain(id) ==
    /\ nEvents < EventBudget
    /\ Drain(id)
    /\ nEvents' = nEvents + 1
    /\ UNCHANGED <<viewVars, resampled, repo, res, procs, sess, nStarts, messages>>

Next ==
    \/ ToggleStart
    \/ ToggleStop
    \/ ClearConversation
    \/ \E s \in PlayerIds : MicDenied(s)
    \/ \E s \in PlayerIds : DeviceFails(s)
    \/ \E s \in PlayerIds, rate \in SessionRates, susp \in BOOLEAN :
            MicGranted(s, rate, susp)
    \/ \E s \in PlayerIds : PlayerResumed(s)
    \/ \E s \in PlayerIds : InputResumed(s)
    \/ \E s \in PlayerIds : OnOpen(s)
    \/ \E s \in PlayerIds : TimerFires(s)
    \/ \E s \in PlayerIds : OnSetupComplete(s)
    \/ \E s \in PlayerIds, m \in ContentMessages : OnMessage(s, m)
    \/ \E s \in PlayerIds, code \in CloseCodes : OnClose(s, code)
    \/ \E s \in PlayerIds : OnError(s)
    \/ \E p \in PlayerIds : CaptureCallback(p)
    \/ \E id \in PlayerIds : PlayerDrain(id)

Spec == Init /\ [][Next]_vars

\* the session life cycle with template switches, without the data events
NextTemplate ==
    \/ \E t \in TEMPLATES : ChangeTemplate(t)
    \/ ToggleStart
    \/ ToggleStop
    \/ ClearConversation
    \/ \E s \in PlayerIds : MicDenied(s)
    \/ \E s \in PlayerIds : DeviceFails(s)
    \/ \E s \in PlayerIds, rate \in SessionRates, susp \in BOOLEAN :
            MicGranted(s, rate, susp)
    \/ \E s \in PlayerIds : PlayerResumed(s)
    \/ \E s \in PlayerIds : InputResumed(s)
    \/ \E s \in PlayerIds : OnOpen(s)
    \/ \E s \in PlayerIds : TimerFires(s)
    \/ \E s \in PlayerIds : OnSetupComplete(s)
    \/ \E s \in PlayerIds, code \in CloseCodes : OnClose(s, code)
    \/ \E s \in PlayerIds : OnError(s)

SpecTemplate == Init /\ [][NextTemplate]_vars

----------------------------------------------------------------------------
(* The resamplers on their own *)

Others == <<viewVars, players, playerObs, last, sessVars>>

Downsample(buffer, sampleRate, outSampleRate) ==
    /\ resampled' = [fn |-> "downsampleBuffer", buffer |-> buffer,
                     sampleRate |-> sampleRate, outSampleRate |-> outSampleRate,
                     result |-> downsampleBuffer(buffer, sampleRate, outSampleRate),
                     err |-> "none"]
    /\ UNCHANGED Others

CaptureData(inputData, contextRate) ==
    /\ resampled' = [fn |-> "finalData", buffer |-> inputData,
                     sampleRate |-> contextRate, outSampleRate |-> 16000,
                     result |-> finalData(inputData, contextRate),
                     err |-> "none"]
    /\ UNCHANGED Others

Resample(inputChunk, targetRate) ==
    /\ resampled' = [fn |-> "resampleToNative", buffer |-> inputChunk,
                     sampleRate |-> sourceRate, outSampleRate |-> targetRate,
                     result |-> resampleToNative(inputChunk, targetRate),
                     err |-> "none"]
    /\ UNCHANGED Others

NextResample ==
    \/ \E b \in Blocks, r \in DeviceRates, o \in OutRates : Downsample(b, r, o)
    \/ \E b \in Blocks, r \in DeviceRates \cup {0} : CaptureData(b, r)
    \/ \E b \in Blocks, r \in DeviceRates : Resample(b, r)

SpecResample == Init /\ [][NextResample]_vars

----------------------------------------------------------------------------
(* The drain callback of player 1 run one loop iteration at a time *)

\* the device invokes onaudioprocess with a buffer of n samples while the
\* queue is q: the early return on an empty queue, else the loop is entered
DrainBegin(q, n) ==
    /\ players[1].pc = "idle"
    /\ players' = [players EXCEPT ![1] =
                      [audioContext |-> sourceRate, scriptNode |-> TRUE,
                       audioQueue |-> q, isPlaying |-> TRUE,
                       pc |-> IF Len(q) = 0 THEN "idle" ELSE "draining"]]
    /\ output' = IF Len(q) = 0 THEN [i \in 1..n |-> 0]
                 ELSE [i \in 1..n |-> Unwritten]
    /\ copied' = 0
    /\ prevQueue' = q
    /\ last' = [NoEffect EXCEPT !.op = "drainBegin", !.sid = 1]
    /\ UNCHANGED <<viewVars, resampled, sessVars, enqueued, emitted, nAdds, nDrains>>

\* one iteration of the while loop; last.arg counts the iterations
DrainIter ==
    /\ players[1].pc = "draining"
    /\ DrainCondition(players[1].audioQueue, output, copied)
    /\ last.arg < MaxIters
    /\ LET r == DrainStep(players[1].audioQueue, output, copied)
       IN  /\ players' = [players EXCEPT ![1].audioQueue = r.queue]
           /\ output' = r.out
           /\ copied' = r.offset
    /\ last' = [last EXCEPT !.op = "drainIter", !.arg = @ + 1]
    /\ UNCHANGED <<viewVars, resampled, sessVars, enqueued, emitted, prevQueue,
                   nAdds, nDrains>>

\* the loop condition is false: the rest is filled with silence, return
DrainEnd ==
    /\ players[1].pc = "draining"
    /\ ~DrainCondition(players[1].audioQueue, output, copied)
    /\ output' = IF copied < Len(output) THEN Fill(output, 0, copied) ELSE output
    /\ players' = [players EXCEPT ![1].pc = "idle"]
    /\ last' = [last EXCEPT !.op = "drainEnd"]
    /\ UNCHANGED <<viewVars, resampled, sessVars, enqueued, emitted, copied,
                   prevQueue, nAdds, nDrains>>

NextDrain ==
    \/ \E q \in DrainQueues, n \in 1..BufferSize : DrainBegin(q, n)
    \/ DrainIter
    \/ DrainEnd

\* a callback that has been entered keeps running
SpecDrain ==
    Init /\ [][NextDrain]_vars /\ WF_vars(DrainIter) /\ WF_vars(DrainEnd)

----------------------------------------------------------------------------
(* The PCM codec on its own: one application in each behaviour *)

Encode(data) ==
    /\ resampled.fn = "none"
    /\ resampled' = [fn |-> "createBlob", buffer |-> data,
                     sampleRate |-> 16000, outSampleRate |-> 16000,
                     result |-> createBlob(data), err |-> "none"]
    /\ UNCHANGED Others

\* a frame decoded as addPCM16 does and encoded again by createBlob
RoundTrip(bytes) ==
    /\ resampled.fn = "none"
    /\ resampled' = [fn |-> "roundTrip", buffer |-> bytes,
                     sampleRate |-> 16000, outSampleRate |-> 16000,
                     result |-> createBlob(AsRatio(ToFloat32(bytes))),
                     err |-> "none"]
    /\ UNCHANGED Others

NextCodec ==
    \/ resampled.fn = "none" /\ \E data \in EncodeInputs : Encode(data)
    \/ resampled.fn = "none" /\ \E bytes \in Int16Frames : RoundTrip(bytes)

SpecCodec == Init /\ [][NextCodec]_vars

----------------------------------------------------------------------------
(* Playback queue properties (checked under SpecPlayer) *)

Zeros(n) == [i \in 1..n |-> 0]

\* C7: while the player is active, the queue samples emitted so far followed
\* by the samples still queued are exactly the samples enqueued so far, in
\* order: nothing is lost, duplicated or reordered.
NoLossNoDuplication ==
    players[1].isPlaying =>
        emitted \o Flatten(players[1].audioQueue) = enqueued

\* C7 witness: two blocks were enqueued, part was emitted and part is queued
NoLossWitness ==
    /\ players[1].isPlaying
    /\ nAdds = 2
    /\ Len(emitted) > 0
    /\ Len(Flatten(players[1].audioQueue)) > 0
    /\ Len(enqueued) > BufferSize

\* C8: a drain that consumes only a prefix of the head block outputs that
\* prefix and leaves exactly the unconsumed suffix at the head; when a single
\* block of length L, n < L <= 2n, went through two drains of size n, the
\* second drain output samples [n, L) followed by 2n - L zeros.
PartialBlockHandling ==
    (last.op = "drain" /\ last.sid = 1 /\ prevQueue # <<>>) =>
        LET h == prevQueue[1]
            n == BufferSize
            L == Len(enqueued)
        IN  /\ Len(h) > n =>
                /\ output = SubSeq(h, 1, n)
                /\ players[1].audioQueue = <<SubSeq(h, n + 1, Len(h))>> \o Tail(prevQueue)
            /\ (/\ players[1].isPlaying
                /\ Len(prevQueue) = 1
                /\ n < L /\ L <= 2 * n
                /\ Len(h) = L - n) =>
                /\ output = SubSeq(enqueued, n + 1, L) \o Zeros(2 * n - L)
                /\ players[1].audioQueue = <<>>

\* C8 witness: one block longer than the buffer went through two drains, the
\* second padded with silence
PartialBlockWitness ==
    /\ last.op = "drain"
    /\ players[1].isPlaying
    /\ nAdds = 1
    /\ Len(prevQueue) = 1
    /\ Len(enqueued) > BufferSize
    /\ Len(prevQueue[1]) = Len(enqueued) - BufferSize
    /\ copied = Len(prevQueue[1])
    /\ copied < BufferSize
    /\ emitted = enqueued

\* C9: every drain callback writes every position of the output buffer:
\* the queued samples first, zero everywhere else, also with an empty queue.
DrainFillsWholeBuffer ==
    last.op = "drain" =>
        LET avail == Flatten(prevQueue)
        IN  /\ Len(output) = BufferSize
            /\ copied = Min(BufferSize, Len(avail))
            /\ \A i \in 1..BufferSize :
                  output[i] = IF i <= copied THEN avail[i] ELSE 0

\* C9 witness: the queue ran out in the middle of the buffer
DrainFillsWitness ==
    /\ last.op = "drain"
    /\ copied > 0
    /\ copied < BufferSize
    /\ output[BufferSize] = 0

----------------------------------------------------------------------------
(* Session properties (checked under Spec) *)

\* C1: on no session is an audio frame sent before that session's
\* setup-complete message has been received.
NoFrameBeforeSetupComplete ==
    \A s \in PlayerIds : sess[s].earlyFrames = 0

\* C2: a start request goes ahead only from the Disconnected state; in the
\* states Connecting, Connected and Error no startLiveSession call begins.
StartOnlyFromDisconnected ==
    [][ToggleStart => liveState = "disconnected"]_vars

\* C3 as stated: the state is never Connected before a setup-complete
\* message has arrived.
ConnectedOnlyAfterSetupComplete ==
    liveState = "connected" => \E s \in PlayerIds : sess[s].setupDone

\* C3 as amended: the transport-open acknowledgement itself makes the state
\* Connected, the state becomes Connected in no other way, and setup-complete
\* sets the setupComplete flag without changing the session state.
ConnectedOnOpen ==
    [][ /\ \A s \in PlayerIds : OnOpen(s) => liveState' = "connected"
        /\ (liveState # "connected" /\ liveState' = "connected")
              => \E s \in PlayerIds : OnOpen(s)
        /\ \A s \in PlayerIds :
              OnSetupComplete(s) => (liveState' = liveState /\ repo'.setupComplete)
      ]_vars

\* C3 witness: Connected although no setup-complete has been received
ConnectedBeforeSetupWitness ==
    /\ liveState = "connected"
    /\ \E s \in PlayerIds : sess[s].transport = "open"
    /\ \A s \in PlayerIds : ~sess[s].setupDone
    /\ ~repo.setupComplete

NormalCloseDisconnects ==
    [][ (\E s \in PlayerIds : OnClose(s, 1000))
          => (liveState' = "disconnected" /\ error' = error /\ last'.err = "none")
      ]_vars

\* C5 witness: an open session has just been closed with code 1000
NormalCloseWitness ==
    /\ last.op = "onclose"
    /\ last.arg = 1000
    /\ sess[last.sid].resolved
    /\ liveState = "disconnected"
    /\ error = "null"

\* C6: once a transport error has put the state in Error, the close event
\* of that session does not move the state out of Error.
TransportErrorIsSticky ==
    [][ \A s \in PlayerIds :
          (liveState = "error" /\ sess[s].transport = "failed"
             /\ sess'[s].transport = "closed")
          => liveState' = "error" ]_vars

\* C10: a stop that directly follows a stop releases nothing and leaves the
\* repository, the platform resources, the players and the capture
\* processors as they were; stopping a stopped player changes nothing and
\* releases nothing.
StopIdempotent ==
    [][ /\ (last.op = "stop" /\ (ToggleStop \/ ClearConversation))
              => (last'.released = {} /\ UNCHANGED <<repo, res, players, procs, sess>>)
        /\ \A id \in PlayerIds :
              LET p1 == AudioStreamPlayer_stop(players[id])
              IN  /\ AudioStreamPlayer_stop(p1) = p1
                  /\ AudioStreamPlayer_stopReleases(p1) = {}
      ]_vars

\* C10 witness: a session acquired its devices, a first stop released them
\* and the stop that followed released nothing
StopTwiceWitness ==
    /\ last.op = "stop"
    /\ last.released = {}
    /\ nStarts = 1
    /\ sess[1].transport \in {"connecting", "open"}
    /\ repo = [NewChatRepository EXCEPT !.setupComplete = repo.setupComplete,
                   !.debugAudioChunksSent = repo.debugAudioChunksSent,
                   !.debugAudioChunksReceived = repo.debugAudioChunksReceived]
    /\ res.liveStreams = {}

----------------------------------------------------------------------------
(* Teardown order, tool calls (checked under Spec) *)

\* the pipeline a teardown step belongs to: 1 capture, 2 playback, 3 transport
PipelineOf(step) ==
    IF step = "sessionPromise" THEN 3
    ELSE IF step = "audioStreamPlayer" THEN 2
    ELSE 1

\* C11: every stop tears down the capture pipeline first, then the playback
\* pipeline, then the transport, and after it nothing is held and no
\* transport is connecting or open.
StopTearsDownInOrder ==
    [][ (ToggleStop \/ ClearConversation) =>
          LET steps == stopLiveSessionSteps(World)
          IN  /\ \A i, j \in 1..Len(steps) :
                    i < j => PipelineOf(steps[i]) <= PipelineOf(steps[j])
              /\ repo'.activeMediaStream = 0
              /\ repo'.activeScriptProcessor = 0
              /\ repo'.inputAudioContext = 0
              /\ repo'.audioStreamPlayer = 0
              /\ repo'.sessionPromise = 0
              /\ \A s \in PlayerIds : sess'[s].transport \notin {"connecting", "open"}
      ]_vars

\* ids of the tool calls of message m, in the order they appear in it
CallIds(m) == [i \in 1..Len(m.toolCall) |-> m.toolCall[i].id]

\* tool responses of session t in outbound order: those sent, then those
\* waiting for the connect promise
ToolOut(ss, t) ==
    LET w == SelectSeq(ss[t].pending, LAMBDA cb : cb.kind = "tool")
    IN  ss[t].toolSent \o [i \in 1..Len(w) |-> w[i].ref]

IsPrefix(a, b) == Len(a) <= Len(b) /\ SubSeq(b, 1, Len(a)) = a

\* C12: every generateTable call received on a session yields exactly one
\* update of the sink and exactly one tool response with the call's id on
\* that session.
ToolCallAnsweredOnce ==
    [][ \A s \in PlayerIds, m \in ContentMessages :
          OnMessage(s, m) =>
            /\ Len(messages') = Len(messages) + Len(m.toolCall)
            /\ sess'[s].toolSent = sess[s].toolSent \o CallIds(m)
      ]_vars

\* C13: a generateTable call without rows leaves the session state and the
\* error as they were, raises nothing in the message handler, gives the sink
\* a table with no rows, and leaves the transport open for later messages.
MissingRowsIsolated ==
    [][ \A s \in PlayerIds :
          OnMessage(s, MsgNoRows) =>
            /\ liveState' = liveState
            /\ error' = error
            /\ ~onmessage(Handler, s, MsgNoRows).threw
            /\ sess'[s].transport = "open"
            /\ Len(messages') = Len(messages) + 1
            /\ messages'[Len(messages')].actionData.rows = <<>>
      ]_vars

\* C13 witness: a call without rows was handled while connected, and the
\* message after it was handled too
MissingRowsWitness ==
    /\ liveState = "connected"
    /\ Len(messages) = 3
    /\ messages[1].actionData.title = "N"
    /\ messages[1].actionData.rows = <<>>
    /\ messages[3].actionData.title = "V"
    /\ \E s \in PlayerIds : sess[s].toolSent = <<102, 101, 104>>

\* C14: a generateTable call whose arguments lack a required field produces
\* no update of the sink.
MalformedCallDropped ==
    [][ \A s \in PlayerIds : OnMessage(s, MsgNoRows) => messages' = messages ]_vars

\* C20: sink updates are appended in the order of the calls of the message
\* handled, and on every session the tool responses go out in the order
\* their calls were handled: within one message and across messages.
ToolCallsInOrder ==
    [][ /\ \A t \in PlayerIds : IsPrefix(ToolOut(sess, t), ToolOut(sess', t))
        /\ \A s \in PlayerIds, m \in ContentMessages :
              OnMessage(s, m) =>
                /\ Len(messages') = Len(messages) + Len(m.toolCall)
                /\ SubSeq(messages', 1, Len(messages)) = messages
                /\ \A i \in 1..Len(m.toolCall) :
                      messages'[Len(messages) + i].actionData
                          = TableData(m.toolCall[i].args)
                /\ \A t \in PlayerIds :
                      ToolOut(sess', t) \in { ToolOut(sess, t),
                                              ToolOut(sess, t) \o CallIds(m) }
      ]_vars

\* C20 witness: a message with two calls and then a message with one call
\* were handled; three updates and three responses, in arrival order
ToolCallsInOrderWitness ==
    /\ Len(messages) = 3
    /\ messages[1].actionData.title = "T"
    /\ messages[2].actionData.title = "V"
    /\ messages[3].actionData.title = "N"
    /\ \E s \in PlayerIds : sess[s].toolSent = <<101, 104, 102>>

----------------------------------------------------------------------------
(* Template switch (checked under SpecTemplate) *)

\* C15: the template changes only in a step that leaves the state outside
\* Connecting and Connected; a switch requested while Connecting or
\* Connected leaves the state Disconnected with every pipeline torn down
\* (nothing held, no transport connecting or open); the template a session
\* was started with is never replaced.
TemplateSwitchStopsFirst ==
    [][ /\ activeTemplate' # activeTemplate
              => liveState' \notin {"connecting", "connected"}
        /\ \A t \in TEMPLATES :
              (ChangeTemplate(t) /\ liveState \in {"connecting", "connected"}) =>
                /\ liveState' = "disconnected"
                /\ repo'.activeMediaStream = 0
                /\ repo'.activeScriptProcessor = 0
                /\ repo'.inputAudioContext = 0
                /\ repo'.audioStreamPlayer = 0
                /\ \A s \in PlayerIds :
                      sess'[s].transport \notin {"connecting", "open"}
        /\ \A s \in PlayerIds :
              sess[s].pc # "unused" => sess'[s].template = sess[s].template
      ]_vars

----------------------------------------------------------------------------
(* Failing starts, start order, capture gate (checked under Spec) *)

FailedStartReleasesAll ==
    (last.op = "startFailed" \/ (last.op = "onerror" /\ ~sess[last.sid].resolved))
      => /\ repo.activeMediaStream = 0
         /\ repo.inputAudioContext = 0
         /\ repo.activeScriptProcessor = 0
         /\ repo.audioStreamPlayer = 0
         /\ repo.sessionPromise = 0
         /\ res.liveStreams = {}
         /\ res.openInCtx = {}
         /\ res.procConnected = {}
         /\ \A id \in PlayerIds : ~players[id].scriptNode

\* C18: in the step in which the state becomes Connected, the capture
\* processor is connected and the drain callback of the player is installed.
PipelinesStartedBeforeConnected ==
    [][ (liveState # "connected" /\ liveState' = "connected") =>
          /\ repo'.activeScriptProcessor # 0
          /\ repo'.activeScriptProcessor \in res'.procConnected
          /\ repo'.audioStreamPlayer # 0
          /\ players'[repo'.audioStreamPlayer].scriptNode
      ]_vars

\* C19: a block captured while the setup-complete message of the session it
\* would go to has not arrived is neither sent nor queued for sending.
EarlyBlocksDropped ==
    [][ \A p \in PlayerIds :
          (CaptureCallback(p) /\ repo.sessionPromise # 0
             /\ ~sess[repo.sessionPromise].setupDone)
          => sess' = sess
      ]_vars

----------------------------------------------------------------------------
(* Resampler properties (checked under SpecResample) *)

Abs(x) == IF x < 0 THEN 0 - x ELSE x

\* C24: asked for the rate the block already has, downsampleBuffer and
\* resampleToNative both return the input block unchanged.
ResampleIdentity ==
    /\ (resampled.fn = "downsampleBuffer"
          /\ resampled.outSampleRate = resampled.sampleRate)
        => resampled.result = resampled.buffer
    /\ (resampled.fn = "resampleToNative" /\ resampled.outSampleRate = sourceRate)
        => resampled.result = resampled.buffer

\* C24 witness: a full block went through resampleToNative at the source rate
ResampleIdentityWitness ==
    /\ resampled.fn = "resampleToNative"
    /\ resampled.outSampleRate = sourceRate
    /\ Len(resampled.buffer) = MaxBlock
    /\ resampled.result = resampled.buffer

\* C25: downsampling a block of length len by k = sampleRate / outSampleRate
\* > 1 yields n samples with n an integer nearest to len / k, so within 1
\* of round(len / k).
DownsampleLengthRounded ==
    (resampled.fn = "downsampleBuffer"
        /\ resampled.sampleRate > resampled.outSampleRate)
      => 2 * Abs(Len(resampled.result) * resampled.sampleRate
                   - Len(resampled.buffer) * resampled.outSampleRate)
            <= resampled.sampleRate

\* C25 witness: 7 samples at 44100 Hz became 3 samples at 16000 Hz
DownsampleLengthWitness ==
    /\ resampled.fn = "downsampleBuffer"
    /\ resampled.sampleRate = 44100
    /\ resampled.outSampleRate = 16000
    /\ Len(resampled.buffer) = 7
    /\ Len(resampled.result) = 3

\* C26: on the capture path a request with a target rate above the source
\* rate ends in an error and does not hand back the input block.
UpsampleRejected ==
    (resampled.fn \in {"finalData", "downsampleBuffer"}
        /\ resampled.sampleRate # 0
        /\ resampled.outSampleRate > resampled.sampleRate
        /\ resampled.buffer # <<>>)
      => (resampled.err # "none" /\ resampled.result # resampled.buffer)

\* C28: for a non-empty block and any device rate, the lower and the upper
\* index of every output sample lie inside the block, and no output sample
\* was computed from a read outside it.
ResampleReadsInBounds ==
    (resampled.fn = "resampleToNative" /\ resampled.buffer # <<>>
        /\ resampled.outSampleRate # sourceRate)
      => LET length == Len(resampled.buffer)
             rate == resampled.outSampleRate
         IN  /\ Len(resampled.result) = ResampleLength(length, rate)
             /\ \A i \in 0..(Len(resampled.result) - 1) :
                   /\ ResampleIndex1(i, rate) \in 0..(length - 1)
                   /\ ResampleIndex2(i, length, rate) \in 0..(length - 1)
                   /\ resampled.result[i + 1] # NaN

\* C28 witness: upsampling to 48000 Hz, where the last output sample needs
\* the clamp on its upper index
ResampleClampWitness ==
    /\ resampled.fn = "resampleToNative"
    /\ resampled.outSampleRate = 48000
    /\ Len(resampled.buffer) = MaxBlock
    /\ Len(resampled.result) = 2 * MaxBlock
    /\ ResampleIndex1(2 * MaxBlock - 1, 48000) + 1 = MaxBlock
    /\ resampled.result[2 * MaxBlock] # NaN

\* C29: when downsampling, the spans averaged for successive output samples
\* start at 0, each begins where the one before ended, each is non-empty and
\* ends at or before the end of the block, and each output sample averages
\* exactly its span.
DownsampleSpansPartition ==
    (resampled.fn = "downsampleBuffer"
        /\ resampled.sampleRate > resampled.outSampleRate)
      => LET length == Len(resampled.buffer)
             n == Len(resampled.result)
             spans == downsampleSpans(length, resampled.sampleRate,
                                      resampled.outSampleRate, n, 0, 0)
         IN  /\ n > 0 => spans[1].from = 0
             /\ \A k \in 2..n : spans[k].from = spans[k - 1].to
             /\ \A k \in 1..n :
                   /\ spans[k].from < spans[k].to
                   /\ spans[k].to <= length
                   /\ resampled.result[k].count = spans[k].to - spans[k].from
                   /\ resampled.result[k].count > 0
                   /\ resampled.result[k].accum # NaN

\* C29 witness: 7 samples at 44100 Hz, where the span of the last output
\* sample is cut off by the end of the block
DownsampleSpansWitness ==
    /\ resampled.fn = "downsampleBuffer"
    /\ resampled.sampleRate = 44100
    /\ resampled.outSampleRate = 16000
    /\ Len(resampled.buffer) = 7
    /\ nextOffsetBuffer(2, 44100, 16000) > 7
    /\ resampled.result[3].count = 1

----------------------------------------------------------------------------
(* Playback stop (checked under SpecPlayer) *)

\* C23: stop() leaves the player without drain callback, without output
\* context and with an empty queue; on a player without output context no
\* drain callback runs and addPCM16 appends nothing.
PlaybackStopClears ==
    [][ /\ PStop => /\ ~players'[1].scriptNode
                    /\ players'[1].audioContext = 0
                    /\ players'[1].audioQueue = <<>>
                    /\ ~players'[1].isPlaying
        /\ players[1].audioContext = 0 =>
              /\ ~players[1].scriptNode
              /\ players[1].audioQueue = <<>>
              /\ ~PDrain
              /\ \A bytes \in PCMFrames :
                    PAdd(bytes) => (players'[1].audioQueue = <<>> /\ enqueued' = enqueued)
      ]_vars

\* C23 witness: blocks were queued, the player was stopped, and an addPCM16
\* call with two samples made after the stop left the queue empty
PlaybackStopWitness ==
    /\ last.op = "addPCM16"
    /\ last.arg = 4
    /\ players[1].audioContext = 0
    /\ Len(enqueued) > 0
    /\ players[1].audioQueue = <<>>
    /\ ~players[1].scriptNode

----------------------------------------------------------------------------
(* Audio forwarding, reconnects, start order, tables (checked under Spec) *)

\* C21: while the state is Connected, the audio part of a server message
\* is appended, decoded and resampled, to the queue of a started player.
AudioForwardedOnce ==
    [][ \A s \in PlayerIds :
          (OnMessage(s, MsgAudio) /\ liveState = "connected") =>
            \E a \in PlayerIds :
              /\ players[a].audioContext # 0
              /\ players'[a].audioQueue =
                    Append(players[a].audioQueue,
                           resampleToNative(ToFloat32(MsgAudio.parts[1].data),
                                            players[a].audioContext))
      ]_vars

\* C22: from the states Error and Disconnected, a step that is not a start
\* request opens no transport and does not make the state Connecting or
\* Connected.
NoConnectWithoutStart ==
    [][ (liveState \in {"error", "disconnected"} /\ ~ToggleStart) =>
          /\ liveState' \notin {"connecting", "connected"}
          /\ \A s \in PlayerIds :
                sess[s].transport = "none" => sess'[s].transport = "none"
      ]_vars

\* C27 as stated: the state is Connecting only when a transport has been
\* opened.
ConnectingAfterTransport ==
    liveState = "connecting" => \E s \in PlayerIds : sess[s].transport # "none"

\* C27 as amended: a start request makes the state Connecting at once, with
\* nothing acquired and no transport; the stream is acquired before the
\* input context is created; the transport is opened last, by a call that
\* has passed the microphone, context and player steps, with input context
\* and player in place and the context it waited for resumed.
StartStepsInOrder ==
    [][ /\ ToggleStart =>
              /\ liveState' = "connecting"
              /\ sess'[nStarts + 1].pc = "awaitMic"
              /\ sess'[nStarts + 1].transport = "none"
              /\ UNCHANGED <<repo, res, players>>
        /\ \A s \in PlayerIds :
              /\ DeviceFails(s) => "mediaStream" \in last'.released
              /\ sess'[s].transport # "none" => sess'[s].pc = "done"
              /\ (sess[s].transport = "none" /\ sess'[s].transport # "none") =>
                    /\ sess[s].pc \in {"awaitMic", "awaitPlayer", "awaitInput"}
                    /\ sess'[s].transport = "connecting"
                    /\ repo'.sessionPromise = s
                    /\ repo'.inputAudioContext # 0
                    /\ sess[s].pc = "awaitInput" =>
                          sess[s].waitCtx \notin res'.suspendedInCtx
                    /\ repo'.audioStreamPlayer # 0
      ]_vars

\* C27 witness: Connecting with the call still waiting for the microphone
StartStepsWitness ==
    /\ liveState = "connecting"
    /\ nStarts = 1
    /\ sess[1].pc = "awaitMic"
    /\ sess[1].transport = "none"
    /\ repo = NewChatRepository

\* C30: the table of every sink update has the title, columns and rows of
\* its own call's arguments (defaults where absent) and nothing else, and
\* handling a tool-call message leaves the repository's fields unchanged.
TableFromArgumentsOnly ==
    [][ \A s \in PlayerIds, m \in ContentMessages :
          OnMessage(s, m) =>
            /\ Len(messages') = Len(messages) + Len(m.toolCall)
            /\ \A i \in 1..Len(m.toolCall) :
                  LET args == m.toolCall[i].args
                      t == messages'[Len(messages) + i].actionData
                  IN  /\ t.rows = IF args.rows = Undefined THEN <<>> ELSE args.rows[1]
                      /\ t.columns = IF args.columns = Undefined
                                     THEN <<>> ELSE args.columns[1]
                      /\ t.title = IF args.title = Undefined THEN "Data"
                                   ELSE args.title[1]
            /\ m.parts = <<>> => repo' = repo
      ]_vars

\* C30 witness: the same message with two calls was handled twice; the
\* third table has one row although the second had two
TableFromArgumentsWitness ==
    /\ Len(messages) = 4
    /\ messages[2].actionData.rows = <<"r1", "r2">>
    /\ messages[3].actionData.rows = <<"r1">>
    /\ messages[4].actionData.rows = <<"r1", "r2">>

----------------------------------------------------------------------------
(* Disconnected state, late callbacks, leaked resources (checked under Spec) *)

\* C31: whenever the state is Disconnected, the repository holds no
\* microphone stream, input context, capture processor or player, and no
\* stream is live, no input context open, no capture processor connected
\* and no player has an output context.
DisconnectedHoldsNothing ==
    liveState = "disconnected" =>
        /\ repo.activeMediaStream = 0
        /\ repo.inputAudioContext = 0
        /\ repo.activeScriptProcessor = 0
        /\ repo.audioStreamPlayer = 0
        /\ res.liveStreams = {}
        /\ res.openInCtx = {}
        /\ res.procConnected = {}
        /\ \A a \in PlayerIds : players[a].audioContext = 0 /\ ~players[a].scriptNode

\* C32: a transport callback (open, message, close, error) that runs
\* directly after a stop leaves the state Disconnected.
StoppedStaysDisconnected ==
    [][ \A s \in PlayerIds :
          (/\ last.op = "stop"
           /\ \/ OnOpen(s)
              \/ OnSetupComplete(s)
              \/ \E m \in ContentMessages : OnMessage(s, m)
              \/ \E code \in CloseCodes : OnClose(s, code)
              \/ OnError(s))
          => liveState' = "disconnected"
      ]_vars

\* C33: at most one capture processor is connected, the repository holds
\* the handle of every connected processor, and a connected processor
\* created by the timer of session p reads the input context of session p.
OneCaptureProcessor ==
    /\ Cardinality(res.procConnected) <= 1
    /\ \A p \in res.procConnected :
          /\ repo.activeScriptProcessor = p
          /\ procs[p].ctx = p

\* C34: at most one microphone stream is live, at most one input context
\* open and at most one player started, and the repository holds the handle
\* of each, so that one stop releases them.
NoLeakAcrossSessions ==
    /\ Cardinality(res.liveStreams) <= 1
    /\ Cardinality(res.openInCtx) <= 1
    /\ Cardinality({a \in PlayerIds : players[a].audioContext # 0}) <= 1
    /\ \A a \in PlayerIds :
          /\ a \in res.liveStreams => repo.activeMediaStream = a
          /\ a \in res.openInCtx => repo.inputAudioContext = a
          /\ players[a].audioContext # 0 => repo.audioStreamPlayer = a

\* C35: a server message handled directly after a stop delivers nothing to
\* the sink, enqueues nothing on any player and sends no tool response.
StoppedMessagesIgnored ==
    [][ \A s \in PlayerIds, m \in ContentMessages :
          (last.op = "stop" /\ OnMessage(s, m)) =>
              /\ messages' = messages
              /\ players' = players
              /\ \A t \in PlayerIds : sess'[t].toolSent = sess[t].toolSent
      ]_vars

\* C36: the step that follows a stop sends no audio frame on any transport
\* (every session that exists then was started before the stop).
NoFrameAfterStop ==
    [][ last.op = "stop" =>
          \A s \in PlayerIds : sess'[s].framesSent = sess[s].framesSent
      ]_vars

----------------------------------------------------------------------------
(* Termination of the drain callback (checked under SpecDrain) *)

\* C37: every iteration of the drain loop advances the output offset or
\* removes the head block; the loop makes at most as many iterations as
\* the buffer has samples and the queue has blocks; a callback that has
\* entered the loop returns, with the result of onaudioprocess.
DrainTerminates ==
    /\ [][ DrainIter =>
              \/ copied' > copied
              \/ Len(players'[1].audioQueue) < Len(players[1].audioQueue)
         ]_vars
    /\ [](players[1].pc = "draining" =>
              last.arg <= Len(output) + Len(prevQueue))
    /\ [](last.op = "drainEnd" =>
              [queue |-> players[1].audioQueue, out |-> output, offset |-> copied]
                = onaudioprocess(prevQueue, [i \in 1..Len(output) |-> Unwritten]))
    /\ (players[1].pc = "draining") ~> (players[1].pc = "idle")

\* C37 witness: the first iteration removed a zero-length head block without
\* advancing the offset, and blocks remain
DrainTerminatesWitness ==
    /\ last.op = "drainIter"
    /\ last.arg = 1
    /\ prevQueue[1] = <<>>
    /\ copied = 0
    /\ players[1].audioQueue = Tail(prevQueue)
    /\ Len(players[1].audioQueue) > 0

----------------------------------------------------------------------------
(* PCM encoding (checked under SpecCodec) *)

\* C38: createBlob never turns a positive sample into a negative value or
\* a negative sample into a positive one, and of two samples x <= y in
\* [-1.0, 1.0] the encoded value of x is at most that of y.
EncodeKeepsSignAndOrder ==
    resampled.fn = "createBlob" =>
        LET x  == resampled.buffer[1]
            y  == resampled.buffer[2]
            ex == Int16At(resampled.result, 1)
            ey == Int16At(resampled.result, 2)
        IN  /\ x.accum > 0 => ex >= 0
            /\ x.accum < 0 => ex <= 0
            /\ x.accum * y.count <= y.accum * x.count => ex <= ey

\* C39: a frame of one 16-bit value, decoded to a sample as addPCM16 does
\* and encoded by createBlob, is the frame itself, and so is its value.
RoundTripIdentity ==
    resampled.fn = "roundTrip" =>
        /\ resampled.result = resampled.buffer
        /\ EncodeSample(Ratio(Int16At(resampled.buffer, 1)))
              = Int16At(resampled.buffer, 1)

\* C39 witness: the round trip of the value -32768
RoundTripWitness ==
    /\ resampled.fn = "roundTrip"
    /\ resampled.buffer = <<0, 128>>
    /\ ToFloat32(resampled.buffer) = <<-32768>>
    /\ resampled.result = <<0, 128>>

====
